---------------------------- MODULE Spec2Model ----------------------------
(***************************************************************************)
(* Model of scripts/codex_ghostty_title_proxy.py: a supervisor that runs   *)
(* an agent CLI in a pseudoterminal, relays bytes in both directions,      *)
(* classifies the agent's activity (working / waiting / approval) from its *)
(* output and mirrors it into the terminal title.                          *)
(*                                                                         *)
(* Text is modelled as sequences of byte values (0..255).  Time is         *)
(* measured in units of 0.05 s, so that 1.4 s, 2.0 s and 0.15 s are the    *)
(* integers 28, 40 and 3.  The two clock samples last_output and           *)
(* last_title_refresh are only ever read as "now - sample", so the model   *)
(* keeps those two differences (since_output, since_title).                *)
(*                                                                         *)
(* Specifications:                                                         *)
(*   Spec        the relay loop; select returns at once or at its timeout  *)
(*   SpecWindow  the relay loop with a long read that overflows the        *)
(*               window; time passes only in pauses longer than the quiet  *)
(*               limit                                                     *)
(*   SpecHint    the output handler applied to one approval hint           *)
(*   SpecStrip   strip_osc_title applied to every short chunk              *)
(*   SpecTitled  strip_osc_title applied to short chunks that start with   *)
(*               ESC ] 2 ;                                                 *)
(*   SpecSplit   one output stream read in chunks cut at arbitrary places  *)
(*   SpecWinch   the relay loop with the SIGWINCH handler interleaved      *)
(***************************************************************************)
EXTENDS Integers, Sequences, FiniteSets

(***************************************************************************)
(* Bytes that the regular expressions and key tables name.                 *)
(***************************************************************************)
BEL ==
    7
TAB ==
    9
CR ==
    13
ESC ==
    27
SP ==
    32
SEMI ==
    59
LBRACKET ==
    91
BACKSLASH ==
    92
RBRACKET ==
    93
DEL ==
    127
DIGIT2 ==
    50

(***************************************************************************)
(* Program constants.                                                      *)
(***************************************************************************)
\* window = (...)[-4000:]
WINDOW_CHARS ==
    4000
\* now - last_output > 1.4           (1.4 s = 28 units of 0.05 s)
QUIET_LIMIT ==
    28
\* now - last_title_refresh > 2.0    (2.0 s = 40 units)
REFRESH_LIMIT ==
    40
\* select.select(watched, [], [], 0.15)   (0.15 s = 3 units)
TICK ==
    3
\* status = 1
FALLBACK_STATUS ==
    1

(***************************************************************************)
(* Bounds of the model.                                                    *)
(***************************************************************************)
\* number of non-empty reads from the pty master in one run
MaxOutputs ==
    2
\* longest chunk given to strip_osc_title in SpecStrip
MaxLen ==
    5
\* length, in units of 0.05 s, of a pause of the supervisor in SpecWindow
Stall ==
    29

(***************************************************************************)
(* Vocabulary tables, as byte sequences of the source's strings.           *)
(***************************************************************************)
COMMON_APPROVAL_HINTS ==
    { <<97, 112, 112, 114, 111, 118, 97, 108>>,
        \* 'approval'
      <<97, 112, 112, 114, 111, 118, 101>>,
        \* 'approve'
      <<99, 111, 110, 102, 105, 114, 109>> }
        \* 'confirm'
HINTS_codex ==
    { <<97, 108, 108, 111, 119, 32, 99, 111, 100, 101, 120, 32, 116, 111>>,
        \* 'allow codex to'
      <<97, 112, 112, 108, 121, 32, 112, 114, 111, 112, 111, 115, 101, 100, 32, 99, 111, 100, 101, 32, 99, 104, 97, 110, 103, 101, 115>>,
        \* 'apply proposed code changes'
      <<101, 110, 97, 98, 108, 101, 32, 102, 117, 108, 108, 32, 97, 99, 99, 101, 115, 115>>,
        \* 'enable full access'
      <<97, 108, 108, 111, 119, 32, 119, 114, 105, 116, 101, 115, 32, 117, 110, 100, 101, 114, 32, 116, 104, 105, 115, 32, 114, 111, 111, 116>>,
        \* 'allow writes under this root'
      <<121, 101, 115, 44, 32, 99, 111, 110, 116, 105, 110, 117, 101, 32, 97, 110, 121, 119, 97, 121>>,
        \* 'yes, continue anyway'
      <<103, 111, 32, 98, 97, 99, 107, 32, 119, 105, 116, 104, 111, 117, 116, 32, 101, 110, 97, 98, 108, 105, 110, 103, 32, 102, 117, 108, 108, 32, 97, 99, 99, 101, 115, 115>>,
        \* 'go back without enabling full access'
      <<97, 99, 99, 101, 112, 116, 102, 111, 114, 115, 101, 115, 115, 105, 111, 110>> }
        \* 'acceptforsession'
HINTS_claude ==
    { <<100, 111, 32, 121, 111, 117, 32, 119, 97, 110, 116, 32, 116, 111, 32, 112, 114, 111, 99, 101, 101, 100>>,
        \* 'do you want to proceed'
      <<121, 101, 115, 44, 32, 97, 110, 100, 32, 100, 111, 110, 39, 116, 32, 97, 115, 107, 32, 97, 103, 97, 105, 110>>,
        \* "yes, and don't ask again"
      <<116, 101, 108, 108, 32, 99, 108, 97, 117, 100, 101, 32, 119, 104, 97, 116, 32, 116, 111, 32, 100, 111>>,
        \* 'tell claude what to do'
      <<98, 97, 115, 104, 32, 99, 111, 109, 109, 97, 110, 100>>,
        \* 'bash command'
      <<101, 100, 105, 116, 32, 102, 105, 108, 101>>,
        \* 'edit file'
      <<119, 114, 105, 116, 101, 32, 116, 111, 32, 102, 105, 108, 101>>,
        \* 'write to file'
      <<97, 108, 108, 111, 119, 32, 116, 111, 111, 108>>,
        \* 'allow tool'
      <<112, 101, 114, 109, 105, 115, 115, 105, 111, 110, 32, 109, 111, 100, 101>>,
        \* 'permission mode'
      <<98, 121, 112, 97, 115, 115, 32, 112, 101, 114, 109, 105, 115, 115, 105, 111, 110, 115>>,
        \* 'bypass permissions'
      <<97, 108, 108, 111, 119, 32, 100, 97, 110, 103, 101, 114, 111, 117, 115, 108, 121, 32, 115, 107, 105, 112, 32, 112, 101, 114, 109, 105, 115, 115, 105, 111, 110, 115>>,
        \* 'allow dangerously skip permissions'
      <<97, 108, 108, 111, 119, 32, 116, 104, 105, 115, 32, 97, 99, 116, 105, 111, 110>>,
        \* 'allow this action'
      <<97, 108, 108, 111, 119, 32, 116, 104, 105, 115, 32, 99, 111, 109, 109, 97, 110, 100>>,
        \* 'allow this command'
      <<116, 114, 117, 115, 116, 32, 116, 104, 105, 115, 32, 100, 105, 114, 101, 99, 116, 111, 114, 121>> }
        \* 'trust this directory'
HINTS_claude_code ==
    { <<100, 111, 32, 121, 111, 117, 32, 119, 97, 110, 116, 32, 116, 111, 32, 112, 114, 111, 99, 101, 101, 100>>,
        \* 'do you want to proceed'
      <<121, 101, 115, 44, 32, 97, 110, 100, 32, 100, 111, 110, 39, 116, 32, 97, 115, 107, 32, 97, 103, 97, 105, 110>>,
        \* "yes, and don't ask again"
      <<116, 101, 108, 108, 32, 99, 108, 97, 117, 100, 101, 32, 119, 104, 97, 116, 32, 116, 111, 32, 100, 111>>,
        \* 'tell claude what to do'
      <<98, 97, 115, 104, 32, 99, 111, 109, 109, 97, 110, 100>>,
        \* 'bash command'
      <<101, 100, 105, 116, 32, 102, 105, 108, 101>>,
        \* 'edit file'
      <<119, 114, 105, 116, 101, 32, 116, 111, 32, 102, 105, 108, 101>>,
        \* 'write to file'
      <<97, 108, 108, 111, 119, 32, 116, 111, 111, 108>>,
        \* 'allow tool'
      <<112, 101, 114, 109, 105, 115, 115, 105, 111, 110, 32, 109, 111, 100, 101>>,
        \* 'permission mode'
      <<98, 121, 112, 97, 115, 115, 32, 112, 101, 114, 109, 105, 115, 115, 105, 111, 110, 115>>,
        \* 'bypass permissions'
      <<97, 108, 108, 111, 119, 32, 100, 97, 110, 103, 101, 114, 111, 117, 115, 108, 121, 32, 115, 107, 105, 112, 32, 112, 101, 114, 109, 105, 115, 115, 105, 111, 110, 115>>,
        \* 'allow dangerously skip permissions'
      <<97, 108, 108, 111, 119, 32, 116, 104, 105, 115, 32, 97, 99, 116, 105, 111, 110>>,
        \* 'allow this action'
      <<97, 108, 108, 111, 119, 32, 116, 104, 105, 115, 32, 99, 111, 109, 109, 97, 110, 100>>,
        \* 'allow this command'
      <<116, 114, 117, 115, 116, 32, 116, 104, 105, 115, 32, 100, 105, 114, 101, 99, 116, 111, 114, 121>> }
        \* 'trust this directory'
HINTS_opencode ==
    { <<112, 101, 114, 109, 105, 115, 115, 105, 111, 110, 32, 100, 101, 110, 105, 101, 100>>,
        \* 'permission denied'
      <<99, 111, 110, 116, 105, 110, 117, 101, 32, 97, 110, 121, 119, 97, 121>>,
        \* 'continue anyway'
      <<115, 101, 99, 117, 114, 105, 116, 121, 32, 119, 97, 114, 110, 105, 110, 103, 115, 32, 102, 111, 117, 110, 100>>,
        \* 'security warnings found'
      <<99, 97, 110, 110, 111, 116, 32, 112, 114, 111, 109, 112, 116, 32, 102, 111, 114, 32, 99, 111, 110, 102, 105, 114, 109, 97, 116, 105, 111, 110>> }
        \* 'cannot prompt for confirmation'
INTERACTION_HINTS ==
    { <<32, 121, 101, 115>>,
        \* ' yes'
      <<32, 110, 111>>,
        \* ' no'
      <<121, 47, 110>>,
        \* 'y/n'
      <<91, 121, 47, 110, 93>>,
        \* '[y/n]'
      <<97, 108, 108, 111, 119, 32, 111, 110, 99, 101>>,
        \* 'allow once'
      <<97, 108, 108, 111, 119, 32, 97, 108, 119, 97, 121, 115>>,
        \* 'allow always'
      <<97, 99, 99, 101, 112, 116>>,
        \* 'accept'
      <<114, 101, 106, 101, 99, 116>>,
        \* 'reject'
      <<100, 101, 110, 121>>,
        \* 'deny'
      <<100, 101, 99, 108, 105, 110, 101>>,
        \* 'decline'
      <<99, 111, 110, 116, 105, 110, 117, 101>>,
        \* 'continue'
      <<99, 111, 110, 102, 105, 114, 109>> }
        \* 'confirm'
RESPONSE_KEYS ==
    { <<13>>,
        \* b'\r'
      <<10>>,
        \* b'\n'
      <<121>>,
        \* b'y'
      <<89>>,
        \* b'Y'
      <<110>>,
        \* b'n'
      <<78>>,
        \* b'N'
      <<49>>,
        \* b'1'
      <<50>>,
        \* b'2'
      <<51>>,
        \* b'3'
      <<52>> }
        \* b'4'

\* AGENT_APPROVAL_HINTS.get(command_base, ())
AGENT_APPROVAL_HINTS(base) ==
    CASE base = "codex" -> HINTS_codex
      [] base = "claude" -> HINTS_claude
      [] base = "claude-code" -> HINTS_claude_code
      [] base = "opencode" -> HINTS_opencode
      [] OTHER -> {}

\* approval_hints = COMMON_APPROVAL_HINTS + AGENT_APPROVAL_HINTS.get(command_base, ())
approval_hints_of(base) ==
    COMMON_APPROVAL_HINTS \cup AGENT_APPROVAL_HINTS(base)

(***************************************************************************)
(* Sequence helpers.                                                       *)
(***************************************************************************)
Min(S) ==
    CHOOSE x \in S : \A y \in S : x <= y

Max(S) ==
    CHOOSE x \in S : \A y \in S : x >= y

\* s[-n:] for n > 0
LastChars(s, n) ==
    IF Len(s) <= n THEN s ELSE SubSeq(s, Len(s) - n + 1, Len(s))

\* h occurs in w at position i
MatchAt(w, i, h) ==
    i + Len(h) - 1 <= Len(w) /\ \A j \in 1..Len(h) : w[i + j - 1] = h[j]

\* Python's "h in w" for a non-empty h
Contains(w, h) ==
    \E i \in 1..Len(w) : w[i] = h[1] /\ MatchAt(w, i, h)

\* any(h in w for h in hs), for non-empty strings hs
ContainsAny(w, hs) ==
    LET firsts == {h[1] : h \in hs}
    IN  \E i \in 1..Len(w) : w[i] \in firsts /\ \E h \in hs : MatchAt(w, i, h)

\* the first position >= from whose element is not in S, Len(s)+1 if none
FirstNotIn(s, from, S) ==
    Min({k \in from..Len(s) : s[k] \notin S} \cup {Len(s) + 1})

(***************************************************************************)
(* The regular expressions.  Each operator gives, for a start position i,  *)
(* the position of the last element of the match the regex engine finds    *)
(* there, or 0 when there is no match at i.                                *)
(***************************************************************************)
\* [^\x07]*(?:\x07|\x1b\\) from position b: the greedy class runs to the first
\* BEL, which then terminates the match; with no BEL it runs to the end of the
\* text and backtracks to the last ESC \ .
OscTail(s, b) ==
    LET bels == {j \in b..Len(s) : s[j] = BEL}
        sts == {k \in b..(Len(s) - 1) : s[k] = ESC /\ s[k + 1] = BACKSLASH}
    IN  IF bels # {} THEN Min(bels)
        ELSE IF sts # {} THEN Max(sts) + 1
        ELSE 0

\* a pattern without the "2;" of OSC_TITLE_RE: it matches every OSC sequence
OSC_ANY_RE(s, i) ==
    IF s[i] = ESC /\ i + 1 <= Len(s) /\ s[i + 1] = RBRACKET
    THEN OscTail(s, i + 2)
    ELSE 0

\* rb"\x1b\]2;[^\x07]*(?:\x07|\x1b\\)"
OSC_TITLE_RE(s, i) ==
    IF /\ s[i] = ESC
       /\ i + 3 <= Len(s)
       /\ s[i + 1] = RBRACKET
       /\ s[i + 2] = DIGIT2
       /\ s[i + 3] = SEMI
    THEN OscTail(s, i + 4)
    ELSE 0

\* r"\x1b\][^\x07]*(?:\x07|\x1b\\)"
OSC_RE(s, i) ==
    IF s[i] = ESC /\ i + 1 <= Len(s) /\ s[i + 1] = RBRACKET
    THEN OscTail(s, i + 2)
    ELSE 0

\* r"\x1b\[[0-?]*[ -/]*[@-~]"
CSI_RE(s, i) ==
    IF s[i] = ESC /\ i + 1 <= Len(s) /\ s[i + 1] = LBRACKET
    THEN LET p == FirstNotIn(s, i + 2, 48..63)
             q == FirstNotIn(s, p, 32..47)
         IN  IF q <= Len(s) /\ s[q] \in 64..126 THEN q ELSE 0
    ELSE 0

\* the character class of CTRL_RE: [\x00-\x08\x0b-\x1f\x7f]
CTRL_CLASS ==
    (0..8) \cup (11..31) \cup {DEL}

\* the characters str.split() separates on (ASCII range)
WHITESPACE ==
    (TAB..CR) \cup (28..31) \cup {SP}

(***************************************************************************)
(* re.sub(pattern, "", s): scan from the left, drop each leftmost match,   *)
(* continue after it.                                                      *)
(***************************************************************************)
RECURSIVE SubOscTitle(_, _)
SubOscTitle(s, from) ==
    LET hits == {i \in from..Len(s) : OSC_TITLE_RE(s, i) # 0}
    IN  IF hits = {} THEN SubSeq(s, from, Len(s))
        ELSE LET i == Min(hits)
             IN  SubSeq(s, from, i - 1) \o SubOscTitle(s, OSC_TITLE_RE(s, i) + 1)

RECURSIVE SubOsc(_, _)
SubOsc(s, from) ==
    LET hits == {i \in from..Len(s) : OSC_RE(s, i) # 0}
    IN  IF hits = {} THEN SubSeq(s, from, Len(s))
        ELSE LET i == Min(hits)
             IN  SubSeq(s, from, i - 1) \o SubOsc(s, OSC_RE(s, i) + 1)

RECURSIVE SubCsi(_, _)
SubCsi(s, from) ==
    LET hits == {i \in from..Len(s) : CSI_RE(s, i) # 0}
    IN  IF hits = {} THEN SubSeq(s, from, Len(s))
        ELSE LET i == Min(hits)
             IN  SubSeq(s, from, i - 1) \o SubCsi(s, CSI_RE(s, i) + 1)

\* CTRL_RE.sub(" ", text): each maximal run of control characters becomes one space
RECURSIVE SubCtrl(_, _)
SubCtrl(s, from) ==
    LET hits == {i \in from..Len(s) : s[i] \in CTRL_CLASS}
    IN  IF hits = {} THEN SubSeq(s, from, Len(s))
        ELSE LET i == Min(hits)
             IN  SubSeq(s, from, i - 1) \o <<SP>>
                     \o SubCtrl(s, FirstNotIn(s, i, CTRL_CLASS))

\* " ".join(words) for the words of s that start at or after position from,
\* which is the start of a word or Len(s)+1
RECURSIVE JoinWords(_, _)
JoinWords(s, from) ==
    LET hits == {i \in from..Len(s) : s[i] \in WHITESPACE}
    IN  IF hits = {} THEN SubSeq(s, from, Len(s))
        ELSE LET i == Min(hits)
                 next == FirstNotIn(s, i, WHITESPACE)
             IN  IF next > Len(s) THEN SubSeq(s, from, i - 1)
                 ELSE SubSeq(s, from, i - 1) \o <<SP>> \o JoinWords(s, next)

\* " ".join(text.split()): whitespace runs become one space, none leading or trailing
JoinSplit(s) ==
    JoinWords(s, FirstNotIn(s, 1, WHITESPACE))

\* chunk.decode("utf-8", errors="ignore") for chunks of ASCII bytes and bytes that
\* can start no UTF-8 sequence (0xF8..0xFF): the latter are dropped
Decode(chunk) ==
    SelectSeq(chunk, LAMBDA b : b < 128)

\* str.lower() on ASCII text
Lower(s) ==
    [i \in 1..Len(s) |-> IF s[i] \in 65..90 THEN s[i] + 32 ELSE s[i]]

\* def strip_osc_title(data)
strip_osc_title(data) ==
    SubOscTitle(data, 1)

\* def normalize(chunk)
normalize(chunk) ==
    JoinSplit(SubCtrl(SubCsi(SubOsc(Lower(Decode(chunk)), 1), 1), 1))

\* "or" where the source has "and"
needs_approval_either(w, hints) ==
    ContainsAny(w, hints) \/ ContainsAny(w, INTERACTION_HINTS)

\* needs_approval = any(hint in window ...) and any(token in window ...)
needs_approval(w, hints) ==
    ContainsAny(w, hints) /\ ContainsAny(w, INTERACTION_HINTS)

\* the window without its bound
AppendWindowUnbounded(w, normalized) ==
    w \o <<SP>> \o normalized

\* window = (window + " " + normalized)[-4000:]
AppendWindow(w, normalized) ==
    LastChars(w \o <<SP>> \o normalized, WINDOW_CHARS)

\* any(key in incoming for key in RESPONSE_KEYS)
HasResponseKey(bytes) ==
    ContainsAny(bytes, RESPONSE_KEYS)

(***************************************************************************)
(* Wait statuses (os.waitpid's second result) and their translation.       *)
(***************************************************************************)
\* os.WIFEXITED(wait_status)
WIFEXITED(wait_status) ==
    wait_status % 128 = 0

\* os.WEXITSTATUS(wait_status)
WEXITSTATUS(wait_status) ==
    (wait_status \div 256) % 256

\* os.WIFSIGNALED(wait_status)
WIFSIGNALED(wait_status) ==
    wait_status % 128 \notin {0, 127}

\* os.WTERMSIG(wait_status)
WTERMSIG(wait_status) ==
    wait_status % 128

\* def exit_code_from_wait_status(wait_status)
exit_code_from_wait_status(wait_status) ==
    IF WIFEXITED(wait_status) THEN WEXITSTATUS(wait_status)
    ELSE IF WIFSIGNALED(wait_status) THEN 128 + WTERMSIG(wait_status)
    ELSE FALLBACK_STATUS

\* waited_pid, waited_status = pid, 1 << 8     (on ChildProcessError)
CHILD_ERROR_STATUS ==
    256

(***************************************************************************)
(* The inputs the environment can produce.                                 *)
(***************************************************************************)
\* basenames of the wrapped command: one with a hint table of its own, one without
Agents ==
    {"claude", "sh"}

\* every key of AGENT_APPROVAL_HINTS, and a command that is none of them
AllAgents ==
    {"codex", "claude", "claude-code", "opencode", "sh"}

\* b"Approve" + 4000 * b"x" + b" [Y/n]": one long read whose hint lies more than
\* 4000 characters before its end
LongChunk ==
    <<65, 112, 112, 114, 111, 118, 101>> \o [i \in 1..WINDOW_CHARS |-> 120]
        \o <<SP, 91, 89, 47, 110, 93>>

\* chunks os.read(master_fd, 65536) can return
OutputChunks ==
    { <<65, 112, 112, 114, 111, 118, 101>>,
        \* b"Approve"         an approval hint only
      <<91, 89, 47, 110, 93>>,
        \* b"[Y/n]"           an interaction token only
      <<99, 111, 110, 102, 105, 114, 109>>,
        \* b"confirm"         listed in both tables
      <<97, 108, 108, 111, 119, 32, 116, 111, 111, 108>>,
        \* b"allow tool"      a hint of claude / claude-code only
      <<ESC, LBRACKET, 48, 109>>,
        \* b"\x1b[0m"         normalizes to the empty string
      <<ESC, RBRACKET, DIGIT2, SEMI, 116, BEL, 111, 107>> }
        \* b"\x1b]2;t\x07ok"  a title sequence, then text

\* the chunks of SpecWindow
WindowChunks ==
    { <<65, 112, 112, 114, 111, 118, 101>>,
        \* b"Approve"          an approval hint only
      <<65, 112, 112, 114, 111, 118, 101, 63, SP, 91, 89, 47, 110, 93>>,
        \* b"Approve? [Y/n]"   a hint and a token
      LongChunk }
        \* a hint, 4000 characters, a token

\* chunks os.read(stdin_fd, 65536) can return
InputChunks ==
    { <<121>>,
        \* b"y"      a response key
      <<97>>,
        \* b"a"      no response key
      <<108, 115, CR>> }
        \* b"ls\r"   text ending in Enter

\* statuses waitpid can report for a terminated child: exit 3, killed by SIGKILL
WaitStatuses ==
    {3 * 256, 9}

\* time select can take, in units of 0.05 s: none, or the whole timeout
Elapsed ==
    {0, TICK}

\* time between two loop steps when the supervisor runs at once or is paused
\* (stopped, or blocked in a write) for longer than the quiet limit
Paused ==
    {0, Stall}

(***************************************************************************)
(* State.  The locals ready, data, filtered_data and incoming are reset to  *)
(* empty once the iteration has read them for the last time.               *)
(***************************************************************************)
VARIABLES
    command_base,   \* os.path.basename(command)
    pc,             \* position of main(): setraw, tick, select, master, stdin,
                    \*   reap, finally, returned, raised; mark (between waitpid
                    \*   and child_exited = True) in SpecWinch; strip/stripped
                    \*   in SpecStrip and SpecTitled
    tty,            \* mode of the controlling terminal: "cooked" (old_tty) or "raw"
    state,          \* "working" | "waiting" | "approval"
    window,         \* normalized recent output
    since_output,   \* time.monotonic() - last_output, saturating above QUIET_LIMIT
    since_title,    \* time.monotonic() - last_title_refresh
    child_exited,
    status,
    waited_status,  \* the wait status the reap obtained, -1 before
    ready,          \* result of select: subset of {"master", "stdin"}
    data,           \* chunk read from the pty master in this iteration
    filtered_data,  \* what was written to stdout for it
    incoming,       \* chunk read from stdin in this iteration
    title,          \* state named by the last title written by set_title
    emitted,        \* whether the last step called set_title
    raised,         \* an exception is propagating out of the loop
    outputs,        \* non-empty reads from the master so far
    since_emit,     \* time since set_title last wrote a title, saturating
    to_master,      \* bytes given to os.write(master_fd, ...) in this iteration
    killed,         \* what the last os.kill(pid, SIGWINCH) of on_winch reached:
                    \*   "none" (not sent), "child", or "stale" (the pid was
                    \*   reaped before)
    stream,         \* SpecSplit: everything the child wrote to the pty
    pending         \* SpecSplit: the part of stream not read yet

vars ==
    <<command_base, pc, tty, state, window, since_output, since_title, child_exited,
      status, waited_status, ready, data, filtered_data, incoming, title, emitted,
      raised, outputs, since_emit, to_master, killed, stream, pending>>

\* approval_hints of the run
approval_hints ==
    approval_hints_of(command_base)

\* the clock samples after d units have passed
Later(since, d, limit) ==
    IF since + d > limit THEN limit + 1 ELSE since + d

\* lines 194-214: the locals after construction, the first title written
Init ==
    /\ command_base \in Agents
    /\ pc = "setraw"
    /\ tty = "cooked"
    /\ state = "working"
    /\ window = <<>>
    /\ since_output = 0
    /\ since_title = 0
    /\ child_exited = FALSE
    /\ status = FALLBACK_STATUS
    /\ waited_status = -1
    /\ ready = {}
    /\ data = <<>>
    /\ filtered_data = <<>>
    /\ incoming = <<>>
    /\ title = "working"
    /\ emitted = TRUE
    /\ raised = FALSE
    /\ outputs = 0
    /\ since_emit = 0
    /\ to_master = <<>>
    /\ killed = "none"
    /\ stream = <<>>
    /\ pending = <<>>

\* tty.setraw(stdin_fd)
SetRaw ==
    /\ pc = "setraw"
    /\ tty' = "raw"
    /\ pc' = "tick"
    /\ emitted' = FALSE
    /\ UNCHANGED <<command_base, state, window, since_output, since_title,
                   since_emit, child_exited, status, waited_status, ready,
                   data, filtered_data, incoming, to_master, title, raised,
                   outputs, killed, stream, pending>>

\* lines 219-223: the idle timeout applies
IdleTimeout ==
    ~child_exited /\ state # "approval" /\ since_output > QUIET_LIMIT

\* the title is refreshed at every tick
RefreshAlways(since) ==
    TRUE

\* the title is never refreshed
RefreshNever(since) ==
    FALSE

\* line 226: now - last_title_refresh > 2.0
RefreshDue(since) ==
    since > REFRESH_LIMIT

\* lines 218-228: idle timeout, then periodic title refresh
Tick ==
    /\ pc = "tick"
    /\ LET toWaiting == IdleTimeout /\ state # "waiting"
           since1 == IF toWaiting THEN 0 ELSE since_title
           refresh == RefreshDue(since1)
       IN  /\ state' = IF toWaiting THEN "waiting" ELSE state
           /\ title' = IF toWaiting \/ refresh THEN state' ELSE title
           /\ emitted' = (toWaiting \/ refresh)
           /\ since_title' = IF refresh THEN 0 ELSE since1
           /\ since_emit' = IF toWaiting \/ refresh THEN 0 ELSE since_emit
    /\ pc' = "select"
    /\ UNCHANGED <<command_base, tty, window, since_output, child_exited,
                   status, waited_status, ready, data, filtered_data,
                   incoming, to_master, raised, outputs, killed, stream,
                   pending>>

\* lines 230-232
watched ==
    IF child_exited THEN {"master"} ELSE {"master", "stdin"}

\* line 234: select returns the descriptors that are ready, having taken one of
\* the times E; with none ready, the timeout has passed
SelectIn(E) ==
    /\ pc = "select"
    /\ \E r \in SUBSET watched, d \in E :
          /\ r = {} => d >= TICK
          /\ ready' = r
          /\ since_output' = Later(since_output, d, QUIET_LIMIT)
          /\ since_title' = Later(since_title, d, REFRESH_LIMIT + TICK)
          /\ since_emit' = Later(since_emit, d, REFRESH_LIMIT + TICK)
    /\ pc' = "master"
    /\ emitted' = FALSE
    /\ UNCHANGED <<command_base, tty, state, window, child_exited, status,
                   waited_status, data, filtered_data, incoming, to_master,
                   title, raised, outputs, killed, stream, pending>>

Select ==
    SelectIn(Elapsed)

\* output always decides the state, also during an approval
StateAfterOutputOverride(st, w, hints) ==
    IF needs_approval(w, hints) THEN "approval" ELSE "working"

\* lines 251-263: the state after a chunk whose normalized text made the window w
StateAfterOutput(st, w, hints) ==
    IF needs_approval(w, hints) THEN "approval"
    ELSE IF st # "approval" THEN "working"
    ELSE st

\* lines 242-263: a non-empty chunk d was read and written to stdout
HandleOutput(d) ==
    /\ data' = d
    /\ filtered_data' = strip_osc_title(d)
    /\ since_output' = 0
    /\ outputs' = outputs + 1
    /\ LET normalized == normalize(d)
       IN  IF normalized # <<>>
           THEN /\ window' = AppendWindow(window, normalized)
                /\ state' = StateAfterOutput(state, window', approval_hints)
           ELSE /\ window' = window
                /\ state' = state
    /\ emitted' = (state' # state)
    /\ title' = IF state' # state THEN state' ELSE title
    /\ since_title' = IF state' # state THEN 0 ELSE since_title
    /\ since_emit' = IF state' # state THEN 0 ELSE since_emit

\* lines 236-263: the master is ready and the read returns one of chunks
MasterDataIn(chunks) ==
    /\ pc = "master"
    /\ "master" \in ready
    /\ outputs < MaxOutputs
    /\ \E d \in chunks : HandleOutput(d)
    /\ pc' = "stdin"
    /\ UNCHANGED <<command_base, tty, child_exited, status, waited_status,
                   ready, incoming, to_master, raised, killed, stream, pending>>

MasterData ==
    MasterDataIn(OutputChunks)

\* line 245: os.write(stdout_fd, filtered_data) raises OSError, which nothing catches
MasterWriteErrorIn(chunks) ==
    /\ pc = "master"
    /\ "master" \in ready
    /\ outputs < MaxOutputs
    /\ \E d \in chunks :
          /\ data' = d
          /\ filtered_data' = strip_osc_title(d)
    /\ raised' = TRUE
    /\ pc' = "finally"
    /\ emitted' = FALSE
    /\ UNCHANGED <<command_base, tty, state, window, since_output,
                   since_title, since_emit, child_exited, status,
                   waited_status, ready, incoming, to_master, title, outputs,
                   killed, stream, pending>>

MasterWriteError ==
    MasterWriteErrorIn(OutputChunks)

\* lines 237-240, 264-265: the read returns b"" or raises OSError; the loop ends
\* if the child has been reaped and goes on otherwise
MasterEmpty ==
    /\ pc = "master"
    /\ "master" \in ready
    /\ data' = <<>>
    /\ pc' = IF child_exited THEN "finally" ELSE "stdin"
    /\ emitted' = FALSE
    /\ UNCHANGED <<command_base, tty, state, window, since_output,
                   since_title, since_emit, child_exited, status,
                   waited_status, ready, filtered_data, incoming, to_master,
                   title, raised, outputs, killed, stream, pending>>

\* line 236: the master is not ready
MasterIdle ==
    /\ pc = "master"
    /\ "master" \notin ready
    /\ pc' = "stdin"
    /\ emitted' = FALSE
    /\ UNCHANGED <<command_base, tty, state, window, since_output,
                   since_title, since_emit, child_exited, status,
                   waited_status, ready, data, filtered_data, incoming,
                   to_master, title, raised, outputs, killed, stream, pending>>

\* any keystroke counts as a response
IsResponseAnyKey(st, bytes) ==
    st = "approval"

\* only Enter counts as a response
IsResponseEnterOnly(st, bytes) ==
    st = "approval" /\ Contains(bytes, <<CR>>)

\* line 277: the user answered the approval prompt
IsResponse(st, bytes) ==
    st = "approval" /\ HasResponseKey(bytes)

\* lines 273-281: a non-empty chunk was read from stdin and written to the master
StdinData ==
    /\ pc = "stdin"
    /\ ~child_exited
    /\ "stdin" \in ready
    /\ ready' = {}
    /\ \E b \in InputChunks :
          /\ incoming' = b
          /\ to_master' = b
          /\ IF IsResponse(state, b)
             THEN /\ state' = "working"
                  /\ window' = <<>>
                  /\ title' = state'
                  /\ emitted' = TRUE
                  /\ since_title' = 0
                  /\ since_emit' = 0
             ELSE /\ emitted' = FALSE
                  /\ UNCHANGED <<state, window, title, since_title, since_emit>>
    /\ pc' = "reap"
    /\ UNCHANGED <<command_base, tty, since_output, child_exited, status,
                   waited_status, data, filtered_data, raised, outputs,
                   killed, stream, pending>>

\* line 274: os.write(master_fd, incoming) raises OSError, which nothing catches
StdinWriteError ==
    /\ pc = "stdin"
    /\ ~child_exited
    /\ "stdin" \in ready
    /\ ready' = {}
    /\ \E b \in InputChunks : incoming' = b
    /\ to_master' = to_master
    /\ raised' = TRUE
    /\ pc' = "finally"
    /\ emitted' = FALSE
    /\ UNCHANGED <<command_base, tty, state, window, since_output,
                   since_title, since_emit, child_exited, status,
                   waited_status, data, filtered_data, title, outputs, killed,
                   stream, pending>>

\* lines 268-271, 282-283: the read returns b"" or raises OSError: break
StdinEmpty ==
    /\ pc = "stdin"
    /\ ~child_exited
    /\ "stdin" \in ready
    /\ ready' = {}
    /\ incoming' = <<>>
    /\ to_master' = to_master
    /\ pc' = "finally"
    /\ emitted' = FALSE
    /\ UNCHANGED <<command_base, tty, state, window, since_output,
                   since_title, since_emit, child_exited, status,
                   waited_status, data, filtered_data, title, raised, outputs,
                   killed, stream, pending>>

\* line 267: stdin is not read in this iteration
StdinIdle ==
    /\ pc = "stdin"
    /\ child_exited \/ "stdin" \notin ready
    /\ ready' = {}
    /\ pc' = "reap"
    /\ emitted' = FALSE
    /\ UNCHANGED <<command_base, tty, state, window, since_output,
                   since_title, since_emit, child_exited, status,
                   waited_status, data, filtered_data, incoming, to_master,
                   title, raised, outputs, killed, stream, pending>>

\* the reap leaves a pending approval in place
ReapedKeepingApproval(ws) ==
    /\ child_exited' = TRUE
    /\ waited_status' = ws
    /\ status' = exit_code_from_wait_status(ws)
    /\ state' = IF state = "approval" THEN state ELSE "waiting"
    /\ emitted' = (state' # state)
    /\ title' = IF state' # state THEN state' ELSE title
    /\ since_title' = IF state' # state THEN 0 ELSE since_title
    /\ since_emit' = IF state' # state THEN 0 ELSE since_emit

\* the reap changes the state without writing the title
ReapedSilently(ws) ==
    /\ child_exited' = TRUE
    /\ waited_status' = ws
    /\ status' = exit_code_from_wait_status(ws)
    /\ state' = "waiting"
    /\ emitted' = FALSE
    /\ UNCHANGED <<title, since_title, since_emit>>

\* lines 291-297: waitpid returned the child's pid with wait status ws
Reaped(ws) ==
    /\ child_exited' = TRUE
    /\ waited_status' = ws
    /\ status' = exit_code_from_wait_status(ws)
    /\ state' = "waiting"
    /\ emitted' = (state # "waiting")
    /\ title' = IF state # "waiting" THEN "waiting" ELSE title
    /\ since_title' = IF state # "waiting" THEN 0 ELSE since_title
    /\ since_emit' = IF state # "waiting" THEN 0 ELSE since_emit

\* lines 285-297: the child has terminated and is reaped
ReapExited ==
    /\ pc = "reap"
    /\ ~child_exited
    /\ data' = <<>>
    /\ filtered_data' = <<>>
    /\ incoming' = <<>>
    /\ to_master' = <<>>
    /\ \E ws \in WaitStatuses : Reaped(ws)
    /\ pc' = "tick"
    /\ UNCHANGED <<command_base, tty, window, since_output, ready, raised,
                   outputs, killed, stream, pending>>

\* lines 288-289: waitpid raises ChildProcessError
ReapError ==
    /\ pc = "reap"
    /\ ~child_exited
    /\ data' = <<>>
    /\ filtered_data' = <<>>
    /\ incoming' = <<>>
    /\ to_master' = <<>>
    /\ Reaped(CHILD_ERROR_STATUS)
    /\ pc' = "tick"
    /\ UNCHANGED <<command_base, tty, window, since_output, ready, raised,
                   outputs, killed, stream, pending>>

\* lines 285-291: the child is still running (waitpid returns (0, 0)), or was
\* reaped in an earlier iteration
ReapNothing ==
    /\ pc = "reap"
    /\ data' = <<>>
    /\ filtered_data' = <<>>
    /\ incoming' = <<>>
    /\ to_master' = <<>>
    /\ pc' = "tick"
    /\ emitted' = FALSE
    /\ UNCHANGED <<command_base, tty, state, window, since_output,
                   since_title, since_emit, child_exited, status,
                   waited_status, ready, title, raised, outputs, killed,
                   stream, pending>>

\* the mode is left as tty.setraw made it
LeftRaw ==
    "raw"

\* line 299: termios.tcsetattr(stdin_fd, termios.TCSADRAIN, old_tty)
RestoredMode ==
    "cooked"

\* lines 298-305: the finally block, then return status or the exception goes on
Finally ==
    /\ pc = "finally"
    /\ tty' = RestoredMode
    /\ pc' = IF raised THEN "raised" ELSE "returned"
    /\ emitted' = FALSE
    /\ UNCHANGED <<command_base, state, window, since_output, since_title,
                   since_emit, child_exited, status, waited_status, ready,
                   data, filtered_data, incoming, to_master, title, raised,
                   outputs, killed, stream, pending>>

Next ==
    \/ SetRaw
    \/ Tick
    \/ Select
    \/ MasterData
    \/ MasterWriteError
    \/ MasterEmpty
    \/ MasterIdle
    \/ StdinData
    \/ StdinWriteError
    \/ StdinEmpty
    \/ StdinIdle
    \/ ReapExited
    \/ ReapError
    \/ ReapNothing
    \/ Finally

Spec ==
    Init /\ [][Next]_vars

(***************************************************************************)
(* SpecWindow: the same loop, fed a read long enough to overflow the       *)
(* window.  Time passes only while the supervisor is paused.               *)
(***************************************************************************)
SelectPaused ==
    SelectIn(Paused)

MasterDataLong ==
    MasterDataIn(WindowChunks)

MasterWriteErrorLong ==
    MasterWriteErrorIn(WindowChunks)

NextWindow ==
    \/ SetRaw
    \/ Tick
    \/ SelectPaused
    \/ MasterDataLong
    \/ MasterWriteErrorLong
    \/ MasterEmpty
    \/ MasterIdle
    \/ StdinData
    \/ StdinWriteError
    \/ StdinEmpty
    \/ StdinIdle
    \/ ReapExited
    \/ ReapError
    \/ ReapNothing
    \/ Finally

SpecWindow ==
    Init /\ [][NextWindow]_vars

(***************************************************************************)
(* SpecHint: the first read of a run returns one approval hint of the      *)
(* running agent, alone or inside neutral text.                            *)
(***************************************************************************)
\* text around the hint: nothing, b"the " before it, b" x" after it
PadsBefore ==
    {<<>>, <<116, 104, 101, SP>>}

PadsAfter ==
    {<<>>, <<SP, 120>>}

LoneHintChunks ==
    {l \o h \o r : l \in PadsBefore, h \in approval_hints, r \in PadsAfter}

\* the loop has reached its first read, at once or after a quiet start
InitHint ==
    /\ command_base \in AllAgents
    /\ pc = "master"
    /\ tty = "raw"
    /\ \/ state = "working" /\ since_output = 0
       \/ state = "waiting" /\ since_output = QUIET_LIMIT + 1
    /\ window = <<>>
    /\ since_title = 0
    /\ child_exited = FALSE
    /\ status = FALLBACK_STATUS
    /\ waited_status = -1
    /\ ready = {"master"}
    /\ data = <<>>
    /\ filtered_data = <<>>
    /\ incoming = <<>>
    /\ title = state
    /\ emitted = FALSE
    /\ raised = FALSE
    /\ outputs = 0
    /\ since_emit = 0
    /\ to_master = <<>>
    /\ killed = "none"
    /\ stream = <<>>
    /\ pending = <<>>

NextHint ==
    MasterDataIn(LoneHintChunks)

SpecHint ==
    InitHint /\ [][NextHint]_vars

(***************************************************************************)
(* SpecStrip: strip_osc_title applied to every chunk of up to MaxLen bytes *)
(* over the bytes its pattern distinguishes.                               *)
(***************************************************************************)
\* ESC ] 2 ; BEL \ and a letter
StripBytes ==
    {ESC, RBRACKET, DIGIT2, SEMI, BEL, BACKSLASH, 97}

StripChunks ==
    UNION {[1..n -> StripBytes] : n \in 0..MaxLen}

InitStrip ==
    /\ command_base = "sh"
    /\ pc = "strip"
    /\ tty = "raw"
    /\ state = "working"
    /\ window = <<>>
    /\ since_output = 0
    /\ since_title = 0
    /\ child_exited = FALSE
    /\ status = FALLBACK_STATUS
    /\ waited_status = -1
    /\ ready = {"master"}
    /\ data \in StripChunks
    /\ filtered_data = <<>>
    /\ incoming = <<>>
    /\ title = "working"
    /\ emitted = FALSE
    /\ raised = FALSE
    /\ outputs = 0
    /\ since_emit = 0
    /\ to_master = <<>>
    /\ killed = "none"
    /\ stream = <<>>
    /\ pending = <<>>

\* line 244: filtered_data = strip_osc_title(data)
Strip ==
    /\ pc = "strip"
    /\ filtered_data' = strip_osc_title(data)
    /\ pc' = "stripped"
    /\ UNCHANGED <<command_base, tty, state, window, since_output,
                   since_title, since_emit, child_exited, status,
                   waited_status, ready, data, incoming, to_master, title,
                   emitted, raised, outputs, killed, stream, pending>>

NextStrip ==
    Strip

SpecStrip ==
    InitStrip /\ [][NextStrip]_vars

(***************************************************************************)
(* SpecSplit: one output stream of the child, read from the pty in chunks  *)
(* cut at arbitrary places, with no input and no timeout in between.       *)
(***************************************************************************)
\* what the child writes
Streams ==
    { <<65, 112, 112, 114, 111, 118, 101, 63, SP, 91, 89, 47, 110, 93>>,
        \* b"Approve? [Y/n]"   a hint and a token
      <<97, 108, 108, 111, 119, SP, 40, 121, 47, 110, 41>>,
        \* b"allow (y/n)"      a token, and a hint of claude only
      <<ESC, LBRACKET, 48, 109, 111, 107>> }
        \* b"\x1b[0mok"        an escape sequence, then text

\* the loop has reached a read of the master and the child has written stream
InitSplit ==
    /\ command_base \in Agents
    /\ pc = "master"
    /\ tty = "raw"
    /\ state = "working"
    /\ window = <<>>
    /\ since_output = 0
    /\ since_title = 0
    /\ child_exited = FALSE
    /\ status = FALLBACK_STATUS
    /\ waited_status = -1
    /\ ready = {"master"}
    /\ data = <<>>
    /\ filtered_data = <<>>
    /\ incoming = <<>>
    /\ title = "working"
    /\ emitted = FALSE
    /\ raised = FALSE
    /\ outputs = 0
    /\ since_emit = 0
    /\ to_master = <<>>
    /\ killed = "none"
    /\ stream \in Streams
    /\ pending = stream

\* lines 236-263: os.read returns the first n bytes the child wrote and the
\* loop handles them; the rest of the iteration finds stdin silent and the
\* child running, and the next select reports the master at once
ReadPart ==
    /\ pc = "master"
    /\ "master" \in ready
    /\ pending # <<>>
    /\ \E n \in 1..Len(pending) :
          /\ HandleOutput(SubSeq(pending, 1, n))
          /\ pending' = SubSeq(pending, n + 1, Len(pending))
    /\ UNCHANGED <<command_base, pc, tty, child_exited, status, waited_status,
                   ready, incoming, to_master, raised, killed, stream>>

NextSplit ==
    ReadPart

SpecSplit ==
    InitSplit /\ [][NextSplit]_vars

(***************************************************************************)
(* SpecWinch: the loop with the SIGWINCH handler.  Python runs a signal    *)
(* handler in the main thread between two bytecodes, so on_winch can run   *)
(* between any two statements of the loop; the reap is therefore taken in  *)
(* two steps, the waitpid call and the assignments that follow it.         *)
(***************************************************************************)
\* lines 285-287: waitpid returns the pid of the terminated child
WaitpidExited ==
    /\ pc = "reap"
    /\ ~child_exited
    /\ data' = <<>>
    /\ filtered_data' = <<>>
    /\ incoming' = <<>>
    /\ to_master' = <<>>
    /\ \E ws \in WaitStatuses : waited_status' = ws
    /\ pc' = "mark"
    /\ emitted' = FALSE
    /\ UNCHANGED <<command_base, tty, state, window, since_output,
                   since_title, since_emit, child_exited, status, ready,
                   title, raised, outputs, killed, stream, pending>>

\* lines 291-297: waited_pid == pid
MarkExited ==
    /\ pc = "mark"
    /\ Reaped(waited_status)
    /\ pc' = "tick"
    /\ UNCHANGED <<command_base, tty, window, since_output, ready, data,
                   filtered_data, incoming, to_master, raised, outputs,
                   killed, stream, pending>>

\* the pid no longer names the child: waitpid has collected it
PidReaped ==
    waited_status # -1

\* lines 204-210: on_winch copies the window size and, unless child_exited is
\* set, sends SIGWINCH to pid
on_winch ==
    /\ pc \in {"setraw", "tick", "select", "master", "stdin", "reap", "mark",
               "finally"}
    /\ killed' = IF child_exited THEN "none"
                 ELSE IF PidReaped THEN "stale"
                 ELSE "child"
    /\ UNCHANGED <<command_base, pc, tty, state, window, since_output,
                   since_title, since_emit, child_exited, status,
                   waited_status, ready, data, filtered_data, incoming,
                   to_master, title, emitted, raised, outputs, stream, pending>>

NextWinch ==
    \/ SetRaw
    \/ Tick
    \/ Select
    \/ MasterData
    \/ MasterWriteError
    \/ MasterEmpty
    \/ MasterIdle
    \/ StdinData
    \/ StdinWriteError
    \/ StdinEmpty
    \/ StdinIdle
    \/ WaitpidExited
    \/ MarkExited
    \/ ReapError
    \/ ReapNothing
    \/ Finally
    \/ on_winch

SpecWinch ==
    Init /\ [][NextWinch]_vars

(***************************************************************************)
(* SpecTitled: strip_osc_title applied to every short chunk that starts    *)
(* with the introducer of a set-title sequence.                            *)
(***************************************************************************)
\* ESC ] 2 ; followed by up to MaxLen - 1 bytes
TitledChunks ==
    {<<ESC, RBRACKET, DIGIT2, SEMI>> \o t :
        t \in UNION {[1..n -> StripBytes] : n \in 0..(MaxLen - 1)}}

InitTitled ==
    /\ command_base = "sh"
    /\ pc = "strip"
    /\ tty = "raw"
    /\ state = "working"
    /\ window = <<>>
    /\ since_output = 0
    /\ since_title = 0
    /\ child_exited = FALSE
    /\ status = FALLBACK_STATUS
    /\ waited_status = -1
    /\ ready = {"master"}
    /\ data \in TitledChunks
    /\ filtered_data = <<>>
    /\ incoming = <<>>
    /\ title = "working"
    /\ emitted = FALSE
    /\ raised = FALSE
    /\ outputs = 0
    /\ since_emit = 0
    /\ to_master = <<>>
    /\ killed = "none"
    /\ stream = <<>>
    /\ pending = <<>>

NextTitled ==
    Strip

SpecTitled ==
    InitTitled /\ [][NextTitled]_vars

(***************************************************************************)
(* Properties.                                                             *)
(***************************************************************************)
\* the step that handled a non-empty chunk read from the pty master
OutputHandled ==
    pc = "master" /\ pc' = "stdin" /\ data' # <<>>

\* the step that handled a non-empty chunk read from stdin
InputHandled ==
    pc = "stdin" /\ pc' = "reap" /\ incoming' # <<>>

\* the step in which waitpid reported the child's termination
ChildReaped ==
    pc = "reap" /\ ~child_exited /\ child_exited'

\* the text the claims call the window after appending the chunk just read
WindowWith(chunk) ==
    LET w == window \o <<SP>> \o normalize(chunk)
    IN  IF Len(w) > 4000 THEN SubSeq(w, Len(w) - 3999, Len(w)) ELSE w

HasHint(w) ==
    ContainsAny(w, approval_hints)

HasToken(w) ==
    ContainsAny(w, INTERACTION_HINTS)

\* C1: an output chunk with non-empty normalized text, handled while the state
\* is Working or Waiting, makes the state Approval if and only if the window
\* after appending it (the old window, a space, the normalized chunk, cut to
\* the last 4000 characters) contains an approval hint of the running agent
\* and an interaction token.
C1_ApprovalIffHintAndToken ==
    [][(/\ OutputHandled
        /\ state \in {"working", "waiting"}
        /\ normalize(data') # <<>>)
       => /\ window' = WindowWith(data')
          /\ state' = "approval" <=> (HasHint(window') /\ HasToken(window'))]_vars

\* C1 witness: the window is full, an earlier part of it was cut off, and the
\* chunk just read completed a hint and a token in what remains
C1_Witness ==
    /\ pc = "stdin"
    /\ data # <<>>
    /\ emitted
    /\ state = "approval"
    /\ Len(window) = WINDOW_CHARS
    /\ outputs = 2

\* a chunk that holds one approval hint of the running agent inside text that
\* matches no hint and no interaction token
LoneHint(chunk) ==
    \E l \in PadsBefore, h \in approval_hints, r \in PadsAfter :
        /\ chunk = l \o h \o r
        /\ ~HasHint(l) /\ ~HasToken(l)
        /\ ~HasHint(r) /\ ~HasToken(r)

\* C2: a window whose only content is one approval hint of the running agent,
\* inside text that matches no hint and no token, never moves the state to
\* Approval.
C2_HintAloneNeverApproval ==
    (pc = "stdin" /\ LoneHint(data)) => state # "approval"

\* C3: at a loop tick, a Working state with no output for more than 1.4 s
\* becomes Waiting, and an Approval state is left alone.
C3_IdleTimeout ==
    [][pc = "tick"
       => /\ (state = "working" /\ since_output > QUIET_LIMIT) => state' = "waiting"
          /\ state = "approval" => state' = "approval"]_vars

\* Enter, newline, y, Y, n, N, 1, 2, 3, 4
ResponseBytes ==
    {13, 10, 121, 89, 110, 78, 49, 50, 51, 52}

HasResponseByte(bytes) ==
    \E i \in 1..Len(bytes) : bytes[i] \in ResponseBytes

\* C4: when a non-empty stdin chunk holding a response key is handled in state
\* Approval, the state is Working, the window is empty and the Working title
\* has been written.
C4_ResponseKey ==
    [][(InputHandled /\ state = "approval" /\ HasResponseByte(incoming'))
       => (state' = "working" /\ window' = <<>> /\ emitted' /\ title' = "working")]_vars

\* C4 witness: the key y was handled and the step wrote a title, which the
\* input handler does only when it leaves Approval
C4_Witness ==
    /\ pc = "reap"
    /\ incoming = <<121>>
    /\ emitted
    /\ state = "working"
    /\ window = <<>>
    /\ outputs > 0

\* C5: the step in which waitpid reports the child's termination leaves the
\* state Waiting, whatever it was, and writes the title if and only if the
\* state changed.
C5_ChildExit ==
    [][ChildReaped
       => (state' = "waiting" /\ title' = "waiting" /\ (emitted' <=> state # "waiting"))]_vars

\* C5 witness: the reap wrote a title and the window still holds the prompt
\* that had put the state in Approval
C5_Witness ==
    /\ pc = "tick"
    /\ child_exited
    /\ emitted
    /\ state = "waiting"
    /\ HasHint(window) /\ HasToken(window)

\* the exit code of a wait status: the exit code of a normal exit, 128 plus the
\* signal number of a termination by signal
Translated(ws) ==
    IF ws % 128 = 0 THEN (ws \div 256) % 256 ELSE 128 + (ws % 128)

\* C6: when the wrapper returns, its exit code is the translated wait status of
\* the child it reaped (1 when reaping failed with ChildProcessError).
C6_ExitCode ==
    pc = "returned" => (child_exited /\ status = Translated(waited_status))

\* C7: after every step the last title written names the current state.
C7_TitleMatchesState ==
    title = state

\* C7 witness: a step changed the state to Approval and wrote its title
C7_Witness ==
    emitted /\ state = "approval" /\ title = "approval" /\ pc = "stdin"

\* C8: once the loop has ended, by a break or by an exception, the terminal is
\* back in its saved mode.
C8_TerminalRestored ==
    pc \in {"returned", "raised"} => tty = "cooked"

\* C8 witness: an exception left the loop and the terminal mode was restored
C8_Witness ==
    pc = "raised" /\ raised /\ tty = "cooked"

\* position i starts ESC ] 2 ; and a BEL or an ESC \ follows the four bytes
TitleSequenceAt(chunk, i) ==
    /\ i + 4 <= Len(chunk)
    /\ SubSeq(chunk, i, i + 3) = <<27, 93, 50, 59>>
    /\ \E j \in (i + 4)..Len(chunk) :
          \/ chunk[j] = 7
          \/ j < Len(chunk) /\ chunk[j] = 27 /\ chunk[j + 1] = 92

HasTitleSequence(chunk) ==
    \E i \in 1..Len(chunk) : TitleSequenceAt(chunk, i)

\* C9: strip_osc_title returns a chunk without a set-title sequence unchanged.
C9_NoTitleIdentity ==
    (pc = "stripped" /\ ~HasTitleSequence(data)) => filtered_data = data

\* C9 witness: a chunk with an OSC sequence that sets no title came back whole
C9_Witness ==
    /\ pc = "stripped"
    /\ ~HasTitleSequence(data)
    /\ Len(data) >= 4
    /\ data[1] = ESC /\ data[2] = RBRACKET /\ data[3] = 97 /\ data[Len(data)] = BEL
    /\ filtered_data = data

\* C10: the state leaves Approval only for Working, when a stdin chunk with a
\* response key is handled, or for Waiting, when the child is reaped.
C10_ApprovalSticky ==
    [][(state = "approval" /\ state' # "approval")
       => \/ InputHandled /\ HasResponseByte(incoming') /\ state' = "working"
          \/ ChildReaped /\ state' = "waiting"]_vars

\* C10 witness: output was handled during an Approval and the window it left
\* no longer holds a hint, and the state is still Approval
C10_Witness ==
    /\ pc = "stdin"
    /\ data # <<>>
    /\ state = "approval"
    /\ ~HasHint(window)

\* C11: a non-empty output chunk handled while the state is not Approval and
\* the window it leaves does not hold both an approval hint and an interaction
\* token makes the state Working, whatever the chunk is made of and also when
\* the state was Waiting.
C11_OutputMakesWorking ==
    [][(/\ OutputHandled
        /\ state # "approval"
        /\ ~(HasHint(window') /\ HasToken(window')))
       => state' = "working"]_vars

\* C12: handling a non-empty stdin chunk forwards exactly that chunk to the pty
\* master, and leaves the state, the window and the title as they were, with no
\* title written, unless the state is Approval and the chunk holds a response
\* key.
C12_KeystrokesKeepState ==
    [][InputHandled
       => /\ to_master' = incoming'
          /\ ~(state = "approval" /\ HasResponseByte(incoming'))
                => /\ state' = state
                   /\ window' = window
                   /\ title' = title
                   /\ ~emitted']_vars

\* C12 witness: b"a" typed during a pending approval was forwarded and the
\* approval is still pending
C12_Witness ==
    /\ pc = "reap"
    /\ incoming = <<97>>
    /\ to_master = <<97>>
    /\ state = "approval"
    /\ title = "approval"
    /\ window # <<>>
    /\ ~emitted

\* C13: after the first title, a title is written only in a step that changes
\* the state, or by the refresh at the top of the loop when more than 2.0 s
\* have passed since the previous title was written; so a title that repeats
\* the state of the previous one comes more than 2.0 s after it.
C13_NoRedundantTitle ==
    [][emitted'
       => /\ state' # state \/ (pc = "tick" /\ since_emit > REFRESH_LIMIT)
          /\ title' = title => since_emit > REFRESH_LIMIT]_vars

\* C13 witness: the refresh has just rewritten the title of a pending approval
C13_Witness ==
    /\ pc = "select"
    /\ emitted
    /\ state = "approval"
    /\ title = "approval"
    /\ since_emit = 0

\* C14: while the loop runs, a tick that finds the last title more than 2.0 s
\* old writes the title of the current state, and the age of the last title
\* never exceeds 2.0 s plus one select timeout (0.15 s), with or without
\* output, input or state changes, before and after the child is reaped.
C14_PeriodicRefresh ==
    /\ [](since_emit <= REFRESH_LIMIT + TICK)
    /\ [][(pc = "tick" /\ since_emit > REFRESH_LIMIT)
          => (emitted' /\ title' = state' /\ since_emit' = 0)]_vars

\* C14 witness: after the child was reaped and nothing else happened for more
\* than 2.0 s, the tick has just rewritten the Waiting title
C14_Witness ==
    /\ pc = "select"
    /\ child_exited
    /\ emitted
    /\ title = "waiting"
    /\ since_emit = 0
    /\ since_output > QUIET_LIMIT

\* the state after the whole stream s is read as one chunk in a fresh run
ReadWhole(s) ==
    IF normalize(s) = <<>> THEN "working"
    ELSE StateAfterOutput("working", AppendWindow(<<>>, normalize(s)),
                          approval_hints)

\* C15: however the child's output is cut into reads, once all of it has been
\* handled the state is the one the uncut stream gives; a hint cut in two by a
\* read boundary is still found in the window.
C15_SplitIndependent ==
    pending = <<>> => state = ReadWhole(stream)

\* C16: the loop ends without an exception only when the child has been
\* reaped: an empty read on stdin or on the pty master while the child has
\* not been reaped does not end it.
C16_EndsOnlyAfterReap ==
    [][(pc \in {"master", "stdin"} /\ pc' = "finally" /\ ~raised')
       => child_exited]_vars

\* C17: from the reap of the child until the wrapper returns, the state is
\* Waiting and the last title written is the Waiting title, whatever output
\* is still read from the pty.
C17_WaitingAfterReap ==
    child_exited => (state = "waiting" /\ title = "waiting")

\* C18: whenever on_winch runs between two steps of the loop, it does not send
\* SIGWINCH to the pid once the loop's waitpid has collected the child (also
\* not between the return of waitpid and the setting of child_exited), and it
\* leaves the state, the window and the timers as they are.
C18_ResizeHandlerSafe ==
    [][killed' # killed
       => /\ killed' # "stale"
          /\ UNCHANGED <<state, window, since_output, since_title>>]_vars

\* C19: an I/O error of a read or of a write on the pty or on stdin ends the
\* loop like an empty read: no exception leaves the loop, and the wrapper ends
\* by returning an exit code.
C19_ErrorsEndGracefully ==
    ~raised /\ pc # "raised"

\* the end of the set-title sequence that starts at i: its first BEL, or the
\* backslash of its first ESC \
FirstTerminator(chunk, i) ==
    Min({IF chunk[j] = 7 THEN j ELSE j + 1 :
            j \in {k \in (i + 4)..Len(chunk) :
                      \/ chunk[k] = 7
                      \/ k < Len(chunk) /\ chunk[k] = 27 /\ chunk[k + 1] = 92}})

\* the bytes of chunk, from position from on, that lie outside every set-title
\* sequence, each sequence ending at its first terminator
RECURSIVE OutsideTitles(_, _)
OutsideTitles(chunk, from) ==
    IF from > Len(chunk) THEN <<>>
    ELSE IF TitleSequenceAt(chunk, from)
         THEN OutsideTitles(chunk, FirstTerminator(chunk, from) + 1)
         ELSE <<chunk[from]>> \o OutsideTitles(chunk, from + 1)

\* a occurs in b as a subsequence
RECURSIVE IsSubsequence(_, _)
IsSubsequence(a, b) ==
    IF a = <<>> THEN TRUE
    ELSE IF b = <<>> THEN FALSE
    ELSE IF a[1] = b[1] THEN IsSubsequence(Tail(a), Tail(b))
    ELSE IsSubsequence(a, Tail(b))

\* C20: every byte of a chunk that lies outside the set-title sequences, each
\* taken to end at its first BEL or ESC \, is still in what strip_osc_title
\* returns, in the same order.
C20_KeepsBytesOutsideTitles ==
    pc = "stripped" => IsSubsequence(OutsideTitles(data, 1), filtered_data)
=============================================================================
